---- MODULE Spec2Model ----
(***************************************************************************)
(* Model of the assistant bot of task-01.py: field validators, Record,     *)
(* AddressBook (with get_upcoming_birthdays and pickle persistence), the   *)
(* input_error decorator, the command handlers and the loop of main().     *)
(*                                                                         *)
(* Strings are sequences of one-character strings, so that split, lower,   *)
(* isdigit, len, strptime and strftime are computed character by           *)
(* character.  The token "U+0663" stands for the single character          *)
(* ARABIC-INDIC DIGIT THREE, a non-ASCII character for which str.isdigit() *)
(* is true.                                                                *)
(***************************************************************************)
EXTENDS Integers, Sequences, FiniteSets, TLC

VARIABLES book, file, pc, today, script, line, out, days, upcoming

vars == <<book, file, pc, today, script, line, out, days, upcoming>>

----------------------------------------------------------------------------
(* Bounds of the model *)

MaxPhones == 2
MaxSchedRecords == 2
MaxWindow == 8

(* Program constants *)

PhoneLen == 10
DefaultDays == 7

----------------------------------------------------------------------------
(* Characters and strings *)

AsciiDigits == <<"0", "1", "2", "3", "4", "5", "6", "7", "8", "9">>

UpperChars == <<"A", "B", "C", "D", "E", "F", "G", "H", "I", "J", "K", "L", "M",
                "N", "O", "P", "Q", "R", "S", "T", "U", "V", "W", "X", "Y", "Z">>

LowerChars == <<"a", "b", "c", "d", "e", "f", "g", "h", "i", "j", "k", "l", "m",
                "n", "o", "p", "q", "r", "s", "t", "u", "v", "w", "x", "y", "z">>

IsAsciiDigit(c) == \E i \in 1..10 : AsciiDigits[i] = c

\* str.isdigit() on one character: ASCII digits and other Unicode digits
IsDigitChar(c) == IsAsciiDigit(c) \/ c = "U+0663"

\* int() of one digit character
DigitVal(c) ==
    IF c = "U+0663" THEN 3
    ELSE (CHOOSE i \in 1..10 : AsciiDigits[i] = c) - 1

\* str.isdigit(): at least one character and all characters digits
isdigit(s) == Len(s) > 0 /\ \A i \in 1..Len(s) : IsDigitChar(s[i])

LowerChar(c) ==
    IF \E i \in 1..26 : UpperChars[i] = c
    THEN LowerChars[CHOOSE i \in 1..26 : UpperChars[i] = c]
    ELSE c

\* str.lower()
lower(s) == [i \in 1..Len(s) |-> LowerChar(s[i])]

IsSpace(c) == c = " "

RECURSIVE SplitFrom(_, _, _, _)
\* str.split() with no separator: runs of whitespace separate the words,
\* leading and trailing whitespace yields no empty word
SplitFrom(s, i, cur, acc) ==
    IF i > Len(s)
    THEN IF cur = <<>> THEN acc ELSE Append(acc, cur)
    ELSE IF IsSpace(s[i])
         THEN SplitFrom(s, i + 1, <<>>, IF cur = <<>> THEN acc ELSE Append(acc, cur))
         ELSE SplitFrom(s, i + 1, Append(cur, s[i]), acc)

split(s) == SplitFrom(s, 1, <<>>, <<>>)

RECURSIVE strip(_)
strip(s) ==
    IF s = <<>> THEN s
    ELSE IF IsSpace(Head(s)) THEN strip(Tail(s))
    ELSE IF IsSpace(s[Len(s)]) THEN strip(SubSeq(s, 1, Len(s) - 1))
    ELSE s

RECURSIVE Join(_)
\* the words of a line separated by single blanks
Join(words) ==
    IF words = <<>> THEN <<>>
    ELSE IF Len(words) = 1 THEN words[1]
    ELSE words[1] \o <<" ">> \o Join(Tail(words))

\* parse_input: exc = "IndexError" when parts is empty (parts[0])
parse_input(user_input) ==
    LET parts == split(strip(user_input))
    IN  IF parts = <<>>
        THEN [exc |-> "IndexError", command |-> <<>>, args |-> <<>>]
        ELSE [exc |-> "None", command |-> lower(parts[1]), args |-> Tail(parts)]

----------------------------------------------------------------------------
(* datetime.date *)

IsLeap(y) == (y % 4 = 0) /\ ((y % 100 # 0) \/ (y % 400 = 0))

DaysInMonth(y, m) ==
    IF m = 2 THEN (IF IsLeap(y) THEN 29 ELSE 28)
    ELSE IF m \in {4, 6, 9, 11} THEN 30 ELSE 31

DaysBeforeYear(y) ==
    (y - 1) * 365 + ((y - 1) \div 4) - ((y - 1) \div 100) + ((y - 1) \div 400)

RECURSIVE DaysBeforeMonth(_, _)
DaysBeforeMonth(y, m) ==
    IF m <= 1 THEN 0 ELSE DaysBeforeMonth(y, m - 1) + DaysInMonth(y, m - 1)

\* date(y, m, d) can be constructed
ValidDate(y, m, d) ==
    /\ y >= 1 /\ y <= 9999
    /\ m >= 1 /\ m <= 12
    /\ d >= 1 /\ d <= DaysInMonth(y, m)

MkDate(y, m, d) == [y |-> y, m |-> m, d |-> d]

\* date.toordinal(); (a - b).days is the difference of the ordinals
ToOrdinal(dt) == DaysBeforeYear(dt.y) + DaysBeforeMonth(dt.y, dt.m) + dt.d

\* date.weekday(): Monday = 0 ... Sunday = 6
weekday(dt) == (ToOrdinal(dt) + 6) % 7

\* a < b on dates
DateLess(a, b) == ToOrdinal(a) < ToOrdinal(b)

NextDay(dt) ==
    IF dt.d < DaysInMonth(dt.y, dt.m) THEN MkDate(dt.y, dt.m, dt.d + 1)
    ELSE IF dt.m < 12 THEN MkDate(dt.y, dt.m + 1, 1)
    ELSE MkDate(dt.y + 1, 1, 1)

RECURSIVE AddDays(_, _)
\* date + timedelta(days = k), k >= 0
AddDays(dt, k) == IF k <= 0 THEN dt ELSE AddDays(NextDay(dt), k - 1)

\* ReplaceYear with a day that does not exist in year y moved back to the
\* last day of the month instead of raising
ReplaceYearClamped(dt, y) ==
    IF ValidDate(y, dt.m, dt.d)
    THEN [exc |-> "None", date |-> MkDate(y, dt.m, dt.d)]
    ELSE [exc |-> "None", date |-> MkDate(y, dt.m, DaysInMonth(y, dt.m))]

\* date.replace(year = y): ValueError when the day does not exist in year y
ReplaceYear(dt, y) ==
    IF ValidDate(y, dt.m, dt.d)
    THEN [exc |-> "None", date |-> MkDate(y, dt.m, dt.d)]
    ELSE [exc |-> "ValueError", date |-> dt]

\* positions of the "." characters of s
DotPositions(s) == {i \in 1..Len(s) : s[i] = "."}

RECURSIVE ToInt(_)
\* int() of a string of digits
ToInt(s) == IF s = <<>> THEN 0 ELSE ToInt(SubSeq(s, 1, Len(s) - 1)) * 10 + DigitVal(s[Len(s)])

\* datetime.strptime(value, "%d.%m.%Y").date(): one or two digits for the day
\* and the month, four digits for the year, the whole string consumed
strptime(value) ==
    LET dots == DotPositions(value)
    IN  IF Cardinality(dots) # 2 THEN [exc |-> "ValueError", date |-> MkDate(1, 1, 1)]
        ELSE LET p1 == CHOOSE i \in dots : \A j \in dots : i <= j
                 p2 == CHOOSE i \in dots : \A j \in dots : j <= i
                 ds == SubSeq(value, 1, p1 - 1)
                 ms == SubSeq(value, p1 + 1, p2 - 1)
                 ys == SubSeq(value, p2 + 1, Len(value))
             IN  IF /\ isdigit(ds) /\ Len(ds) <= 2
                    /\ isdigit(ms) /\ Len(ms) <= 2
                    /\ isdigit(ys) /\ Len(ys) = 4
                    /\ ValidDate(ToInt(ys), ToInt(ms), ToInt(ds))
                 THEN [exc |-> "None", date |-> MkDate(ToInt(ys), ToInt(ms), ToInt(ds))]
                 ELSE [exc |-> "ValueError", date |-> MkDate(1, 1, 1)]

RECURSIVE Pad(_, _)
\* n in decimal, zero padded to w characters
Pad(n, w) == IF w = 0 THEN <<>> ELSE Append(Pad(n \div 10, w - 1), AsciiDigits[(n % 10) + 1])

\* date.strftime("%d.%m.%Y")
strftime(dt) == Pad(dt.d, 2) \o <<".">> \o Pad(dt.m, 2) \o <<".">> \o Pad(dt.y, 4)

----------------------------------------------------------------------------
(* Field validators.  Each returns exc = "ValueError" where the constructor *)
(* raises, and the stored value otherwise.                                  *)

NameEmptyText == "Name cannot be empty."
InvalidPhoneText == "Phone number must be a 10-digit number."
InvalidDateText == "Invalid date format. Use DD.MM.YYYY"
DayOutOfRangeText == "day is out of range for month"

\* Name.__init__
Name(value) ==
    IF value = <<>>
    THEN [exc |-> "ValueError", text |-> NameEmptyText, value |-> value]
    ELSE [exc |-> "None", text |-> "", value |-> value]

\* Phone.__init__
Phone(value) ==
    IF ~isdigit(value) \/ Len(value) # PhoneLen
    THEN [exc |-> "ValueError", text |-> InvalidPhoneText, value |-> value]
    ELSE [exc |-> "None", text |-> "", value |-> value]

\* Birthday.__init__: the ValueError of strptime and the one raised for a
\* future date are both caught and replaced by the same ValueError; the
\* string itself is what is stored
Birthday(value, t) ==
    LET parsed == strptime(value)
    IN  IF parsed.exc # "None"
        THEN [exc |-> "ValueError", text |-> InvalidDateText, value |-> value]
        ELSE IF DateLess(t, parsed.date)
        THEN [exc |-> "ValueError", text |-> InvalidDateText, value |-> value]
        ELSE [exc |-> "None", text |-> "", value |-> value]

----------------------------------------------------------------------------
(* Record *)

\* self.birthday = None
NoBirthday == <<>>

\* Record.__init__
Record(name) ==
    LET n == Name(name)
    IN  [exc |-> n.exc, text |-> n.text,
         record |-> [name |-> n.value, phones |-> <<>>, birthday |-> NoBirthday]]

\* Record.add_phone
add_phone(record, phone) ==
    LET ph == Phone(phone)
    IN  IF ph.exc # "None"
        THEN [exc |-> ph.exc, text |-> ph.text, record |-> record]
        ELSE [exc |-> "None", text |-> "",
              record |-> [record EXCEPT !.phones = Append(@, ph.value)]]

ChangedText == "Phone number {old_phone} changed to {new_phone}."
OldNotFoundText == "Old phone number not found."

\* change_phone replacing the last match instead of the first
change_phone_last(record, old_phone, new_phone) ==
    LET matches == {i \in 1..Len(record.phones) : record.phones[i] = old_phone}
    IN  IF matches = {}
        THEN [exc |-> "None", text |-> OldNotFoundText, record |-> record]
        ELSE LET idx == CHOOSE i \in matches : \A j \in matches : j <= i
                 ph == Phone(new_phone)
             IN  IF ph.exc # "None"
                 THEN [exc |-> ph.exc, text |-> ph.text, record |-> record]
                 ELSE [exc |-> "None", text |-> ChangedText,
                       record |-> [record EXCEPT !.phones[idx] = ph.value]]

\* Record.change_phone: the first idx with phones[idx].value == old_phone is
\* replaced by Phone(new_phone); Phone() is only called once a match is found
change_phone(record, old_phone, new_phone) ==
    LET matches == {i \in 1..Len(record.phones) : record.phones[i] = old_phone}
    IN  IF matches = {}
        THEN [exc |-> "None", text |-> OldNotFoundText, record |-> record]
        ELSE LET idx == CHOOSE i \in matches : \A j \in matches : i <= j
                 ph == Phone(new_phone)
             IN  IF ph.exc # "None"
                 THEN [exc |-> ph.exc, text |-> ph.text, record |-> record]
                 ELSE [exc |-> "None", text |-> ChangedText,
                       record |-> [record EXCEPT !.phones[idx] = ph.value]]

\* Record.add_birthday
add_birthday(record, birthday, t) ==
    LET b == Birthday(birthday, t)
    IN  IF b.exc # "None"
        THEN [exc |-> b.exc, text |-> b.text, record |-> record]
        ELSE [exc |-> "None", text |-> "", record |-> [record EXCEPT !.birthday = b.value]]

\* Record.__str__: name, phones and birthday of the record
RecordStr(record) == <<record.name, record.phones, record.birthday>>

----------------------------------------------------------------------------
(* AddressBook: self.data is a dict, modelled as the sequence of its        *)
(* (key, record) items in insertion order.                                  *)

Keys(data) == {data[i].key : i \in 1..Len(data)}

\* position of name in data, 0 when data.get(name) is None
find(data, name) ==
    IF \E i \in 1..Len(data) : data[i].key = name
    THEN CHOOSE i \in 1..Len(data) : data[i].key = name
    ELSE 0

\* AddressBook.add_record: self.data[record.name.value] = record
add_record(data, record) ==
    LET i == find(data, record.name)
    IN  IF i # 0 THEN [data EXCEPT ![i].record = record]
        ELSE Append(data, [key |-> record.name, record |-> record])

\* birthday.replace(year = today.year), moved to today.year + 1 when it is
\* strictly before today
NextOccurrence(birthday_date, t) ==
    LET first == ReplaceYear(birthday_date, t.y)
    IN  IF first.exc # "None" THEN first
        ELSE IF DateLess(first.date, t) THEN ReplaceYear(first.date, t.y + 1)
        ELSE first

\* 0 <= days_until_birthday <= days
InWindow(birthday, t, d) ==
    LET days_until_birthday == ToOrdinal(birthday) - ToOrdinal(t)
    IN  0 <= days_until_birthday /\ days_until_birthday <= d

\* WeekendShift moving by 6 - weekday days
WeekendShiftBySix(birthday) ==
    IF weekday(birthday) \in {5, 6}
    THEN AddDays(birthday, 6 - weekday(birthday))
    ELSE birthday

\* a Saturday or Sunday is moved by 7 - weekday days
WeekendShift(birthday) ==
    IF weekday(birthday) \in {5, 6}
    THEN AddDays(birthday, 7 - weekday(birthday))
    ELSE birthday

RECURSIVE UpcomingFrom(_, _, _, _, _)
\* the loop of get_upcoming_birthdays from item i on; a ValueError of
\* strptime or replace leaves the function without a result
UpcomingFrom(data, i, t, d, upcoming_birthdays) ==
    IF i > Len(data) THEN [exc |-> "None", text |-> "", entries |-> upcoming_birthdays]
    ELSE LET record == data[i].record
         IN  IF record.birthday = NoBirthday
             THEN UpcomingFrom(data, i + 1, t, d, upcoming_birthdays)
             ELSE LET parsed == strptime(record.birthday)
                      next == NextOccurrence(parsed.date, t)
                  IN  IF parsed.exc # "None" \/ next.exc # "None"
                      THEN [exc |-> "ValueError", text |-> DayOutOfRangeText, entries |-> <<>>]
                      ELSE IF InWindow(next.date, t, d)
                      THEN UpcomingFrom(data, i + 1, t, d,
                               Append(upcoming_birthdays,
                                      [name |-> record.name,
                                       birthday |-> strftime(WeekendShift(next.date))]))
                      ELSE UpcomingFrom(data, i + 1, t, d, upcoming_birthdays)

\* AddressBook.get_upcoming_birthdays
get_upcoming_birthdays(data, t, d) == UpcomingFrom(data, 1, t, d, <<>>)

----------------------------------------------------------------------------
(* Persistence: pickle writes the object graph as a stream of opcodes with  *)
(* their arguments and rebuilds the objects by replaying the stream.        *)

Op(op, arg) == [op |-> op, arg |-> arg]

\* DumpItem that does not write the birthday
DumpItemNoBirthday(item) ==
    <<Op("KEY", item.key), Op("NAME", item.record.name)>>
    \o [i \in 1..Len(item.record.phones) |-> Op("PHONE", item.record.phones[i])]
    \o <<Op("NONE", <<>>)>>
    \o <<Op("SETITEM", <<>>)>>

\* the opcodes that rebuild one dict item
DumpItem(item) ==
    <<Op("KEY", item.key), Op("NAME", item.record.name)>>
    \o [i \in 1..Len(item.record.phones) |-> Op("PHONE", item.record.phones[i])]
    \o (IF item.record.birthday = NoBirthday
        THEN <<Op("NONE", <<>>)>>
        ELSE <<Op("BIRTHDAY", item.record.birthday)>>)
    \o <<Op("SETITEM", <<>>)>>

RECURSIVE DumpItems(_)
DumpItems(data) == IF data = <<>> THEN <<>> ELSE DumpItem(Head(data)) \o DumpItems(Tail(data))

\* pickle.dump(book, f)
dump(data) == DumpItems(data) \o <<Op("STOP", <<>>)>>

EmptyRecord == [name |-> <<>>, phones |-> <<>>, birthday |-> NoBirthday]

RECURSIVE LoadFrom(_, _, _, _, _)
\* replay of the opcodes from position i: key and record are the item being
\* rebuilt, data the dict rebuilt so far
LoadFrom(stream, i, key, record, data) ==
    LET o == stream[i]
    IN  IF o.op = "STOP" THEN data
        ELSE IF o.op = "KEY" THEN LoadFrom(stream, i + 1, o.arg, EmptyRecord, data)
        ELSE IF o.op = "NAME"
        THEN LoadFrom(stream, i + 1, key, [record EXCEPT !.name = o.arg], data)
        ELSE IF o.op = "PHONE"
        THEN LoadFrom(stream, i + 1, key, [record EXCEPT !.phones = Append(@, o.arg)], data)
        ELSE IF o.op = "NONE"
        THEN LoadFrom(stream, i + 1, key, [record EXCEPT !.birthday = NoBirthday], data)
        ELSE IF o.op = "BIRTHDAY"
        THEN LoadFrom(stream, i + 1, key, [record EXCEPT !.birthday = o.arg], data)
        ELSE LoadFrom(stream, i + 1, key, record,
                      Append(data, [key |-> key, record |-> record]))

\* pickle.load(f)
load(stream) == LoadFrom(stream, 1, <<>>, EmptyRecord, <<>>)

\* the file addressbook.pkl does not exist
NoFile == <<>>

\* AddressBook.save_data: the new contents of the file
save_data(data) == dump(data)

\* AddressBook.load_data: an empty AddressBook on FileNotFoundError
load_data(f) == IF f = NoFile THEN <<>> ELSE load(f)

----------------------------------------------------------------------------
(* The words typed by the user *)

W_hello == <<"h", "e", "l", "l", "o">>
W_add == <<"a", "d", "d">>
W_change == <<"c", "h", "a", "n", "g", "e">>
W_phone == <<"p", "h", "o", "n", "e">>
W_all == <<"a", "l", "l">>
W_add_birthday == <<"a", "d", "d", "-", "b", "i", "r", "t", "h", "d", "a", "y">>
W_show_birthday == <<"s", "h", "o", "w", "-", "b", "i", "r", "t", "h", "d", "a", "y">>
W_birthdays == <<"b", "i", "r", "t", "h", "d", "a", "y", "s">>
W_close == <<"c", "l", "o", "s", "e">>
W_exit == <<"e", "x", "i", "t">>
W_EXIT == <<"E", "X", "I", "T">>
W_foo == <<"f", "o", "o">>
Ann == <<"A", "n", "n">>
Bob == <<"B", "o", "b">>
Cat == <<"C", "a", "t">>
Dan == <<"D", "a", "n">>
PhoneA == <<"1", "2", "3", "4", "5", "6", "7", "8", "9", "0">>
PhoneShort == <<"1", "2", "3", "4", "5">>
PhoneAlpha == <<"1", "2", "3", "4", "5", "6", "7", "8", "9", "x">>
D_29_02_2020 == <<"2", "9", ".", "0", "2", ".", "2", "0", "2", "0">>
D_15_06_2020 == <<"1", "5", ".", "0", "6", ".", "2", "0", "2", "0">>
D_31_06_2020 == <<"3", "1", ".", "0", "6", ".", "2", "0", "2", "0">>
D_11_06_2024 == <<"1", "1", ".", "0", "6", ".", "2", "0", "2", "4">>
D_16_06_2019 == <<"1", "6", ".", "0", "6", ".", "2", "0", "1", "9">>
D_1_1_2020 == <<"1", ".", "1", ".", "2", "0", "2", "0">>
D_31_12_1999 == <<"3", "1", ".", "1", "2", ".", "1", "9", "9", "9">>
D_10_06_2000 == <<"1", "0", ".", "0", "6", ".", "2", "0", "0", "0">>
PhoneU == <<"0", "9", "8", "7", "6", "5", "4", "3", "2", "U+0663">>

----------------------------------------------------------------------------
(* input_error and the command handlers.  A handler returns exc ("None"     *)
(* when it returns normally), the text it returns or raises with, the       *)
(* values formatted into the text, and the address book as it has left it.  *)

NotEnoughText == "Not enough arguments provided."
KeyErrorText == "Contact not found."
NotEnoughValuesText == "not enough values to unpack (expected {n}, got {k})"
TooManyValuesText == "too many values to unpack (expected {n})"
ContactNotFoundText == "Contact {name} not found."
AddedPhoneText == "Added phone {phone} to {name}."
NewContactText == "New contact {name} added with phone {phone}."
PhonesText == "{name}'s phones: {phones}"
NoContactsText == "No contacts in the address book."
AllText == "{records}"
BirthdayAddedText == "Birthday for {name} added successfully."
NoBirthdayText == "No birthday set for {name}."
BirthdayIsText == "{name}'s birthday is on {birthday}."
NoUpcomingText == "No upcoming birthdays this week."
UpcomingText == "Upcoming birthdays:{entries}"
HelloText == "How can I help you?"
InvalidCommandText == "Invalid command."
GoodByeText == "Good bye!"
WelcomeText == "Welcome to the assistant bot!"
TracebackText == "IndexError: list index out of range"

Return(text, values, data) == [exc |-> "None", text |-> text, values |-> values, book |-> data]

Raise(exc, text, data) == [exc |-> exc, text |-> text, values |-> <<>>, book |-> data]

\* name, ... = args with n targets: the text of the ValueError
UnpackText(args, n) == IF Len(args) < n THEN NotEnoughValuesText ELSE TooManyValuesText

\* input_error.wrapper: the message and the book after the call
input_error(r) ==
    IF r.exc = "None" THEN [text |-> r.text, values |-> r.values, book |-> r.book]
    ELSE IF r.exc = "IndexError" THEN [text |-> NotEnoughText, values |-> <<>>, book |-> r.book]
    ELSE IF r.exc = "KeyError" THEN [text |-> KeyErrorText, values |-> <<>>, book |-> r.book]
    ELSE [text |-> r.text, values |-> <<>>, book |-> r.book]

\* add_contact that puts the new record in the book before its phone is added
add_contact_record_first(args, data) ==
    IF Len(args) # 2 THEN Raise("ValueError", UnpackText(args, 2), data)
    ELSE LET name == args[1]
             phone == args[2]
             i == find(data, name)
         IN  IF i # 0
             THEN LET r == add_phone(data[i].record, phone)
                  IN  IF r.exc # "None" THEN Raise(r.exc, r.text, data)
                      ELSE Return(AddedPhoneText, <<phone, name>>,
                                  [data EXCEPT ![i].record = r.record])
             ELSE LET new_record == Record(name)
                      r == add_phone(new_record.record, phone)
                  IN  IF new_record.exc # "None"
                      THEN Raise(new_record.exc, new_record.text, data)
                      ELSE IF r.exc # "None"
                      THEN Raise(r.exc, r.text, add_record(data, new_record.record))
                      ELSE Return(NewContactText, <<name, phone>>,
                                  add_record(data, r.record))

add_contact(args, data) ==
    IF Len(args) # 2 THEN Raise("ValueError", UnpackText(args, 2), data)
    ELSE LET name == args[1]
             phone == args[2]
             i == find(data, name)
         IN  IF i # 0
             THEN LET r == add_phone(data[i].record, phone)
                  IN  IF r.exc # "None" THEN Raise(r.exc, r.text, data)
                      ELSE Return(AddedPhoneText, <<phone, name>>,
                                  [data EXCEPT ![i].record = r.record])
             ELSE LET new_record == Record(name)
                      r == add_phone(new_record.record, phone)
                  IN  IF new_record.exc # "None"
                      THEN Raise(new_record.exc, new_record.text, data)
                      ELSE IF r.exc # "None" THEN Raise(r.exc, r.text, data)
                      ELSE Return(NewContactText, <<name, phone>>,
                                  add_record(data, r.record))

change_contact(args, data) ==
    IF Len(args) # 3 THEN Raise("ValueError", UnpackText(args, 3), data)
    ELSE LET name == args[1]
             old_phone == args[2]
             new_phone == args[3]
             i == find(data, name)
         IN  IF i = 0 THEN Return(ContactNotFoundText, <<name>>, data)
             ELSE LET r == change_phone(data[i].record, old_phone, new_phone)
                  IN  IF r.exc # "None" THEN Raise(r.exc, r.text, data)
                      ELSE Return(r.text, <<old_phone, new_phone>>,
                                  [data EXCEPT ![i].record = r.record])

show_phone(args, data) ==
    IF Len(args) = 0 THEN Raise("IndexError", "", data)
    ELSE LET name == args[1]
             i == find(data, name)
         IN  IF i = 0 THEN Return(ContactNotFoundText, <<name>>, data)
             ELSE Return(PhonesText, <<name, data[i].record.phones>>, data)

show_all(args, data) ==
    IF data = <<>> THEN Return(NoContactsText, <<>>, data)
    ELSE Return(AllText, [i \in 1..Len(data) |-> RecordStr(data[i].record)], data)

add_birthday_cmd(args, data, t) ==
    IF Len(args) # 2 THEN Raise("ValueError", UnpackText(args, 2), data)
    ELSE LET name == args[1]
             birthday == args[2]
             i == find(data, name)
         IN  IF i = 0 THEN Return(ContactNotFoundText, <<name>>, data)
             ELSE LET r == add_birthday(data[i].record, birthday, t)
                  IN  IF r.exc # "None" THEN Raise(r.exc, r.text, data)
                      ELSE Return(BirthdayAddedText, <<name>>,
                                  [data EXCEPT ![i].record = r.record])

show_birthday(args, data) ==
    IF Len(args) = 0 THEN Raise("IndexError", "", data)
    ELSE LET name == args[1]
             i == find(data, name)
         IN  IF i = 0 THEN Return(ContactNotFoundText, <<name>>, data)
             ELSE IF data[i].record.birthday = NoBirthday
             THEN Return(NoBirthdayText, <<name>>, data)
             ELSE Return(BirthdayIsText, <<name, data[i].record.birthday>>, data)

birthdays(args, data, t) ==
    LET upcoming_birthdays == get_upcoming_birthdays(data, t, DefaultDays)
    IN  IF upcoming_birthdays.exc # "None"
        THEN Raise(upcoming_birthdays.exc, upcoming_birthdays.text, data)
        ELSE IF upcoming_birthdays.entries = <<>>
        THEN Return(NoUpcomingText, <<>>, data)
        ELSE Return(UpcomingText, upcoming_birthdays.entries, data)

----------------------------------------------------------------------------
(* The lines typed by the user.  script names the set of lines the user     *)
(* chooses from in a behaviour.                                             *)

Names == {Ann, Bob}

PhoneInputs == {PhoneA, PhoneU, PhoneShort, PhoneAlpha}

FullLines ==
    {<<>>, <<" ">>, <<" ">> \o W_hello \o <<" ">>}
    \cup {W_hello, W_all, W_birthdays, W_close, W_exit, W_EXIT, W_foo}
    \cup {Join(<<W_add, Ann, p>>) : p \in PhoneInputs}
    \cup {Join(<<W_add, Bob, PhoneA>>), Join(<<W_add, Bob, PhoneShort>>)}
    \cup {W_add, Join(<<W_add, Ann>>), Join(<<W_add, Ann, PhoneA, PhoneA>>)}
    \cup {Join(<<W_change, Ann, o, p>>) : o \in {PhoneA, PhoneU, PhoneShort}, p \in PhoneInputs}
    \cup {Join(<<W_change, Bob, PhoneA, PhoneShort>>), Join(<<W_change, Ann, PhoneA>>)}
    \cup {Join(<<W_phone, n>>) : n \in Names}
    \cup {W_phone, Join(<<W_phone, Ann, Bob>>)}
    \cup {Join(<<W_add_birthday, Ann, d>>) : d \in {D_29_02_2020, D_31_06_2020, D_11_06_2024}}
    \cup {Join(<<W_add_birthday, Bob, D_15_06_2020>>), Join(<<W_add_birthday, Ann>>)}
    \cup {Join(<<W_show_birthday, n>>) : n \in Names}
    \cup {W_show_birthday}

ShortLines ==
    {<<>>, W_hello, W_all, W_birthdays, W_close, W_EXIT, W_foo, W_phone, W_show_birthday}
    \cup {Join(<<W_add, Ann, PhoneA>>), Join(<<W_add, Ann, PhoneU>>),
          Join(<<W_add, Bob, PhoneA>>), Join(<<W_add, Bob, PhoneShort>>)}
    \cup {Join(<<W_change, Ann, PhoneA>>)}
    \cup {Join(<<W_add_birthday, Ann, D_29_02_2020>>)}

\* every line with the result of parse_input on it
Parsed(lines) == {[raw |-> l, parsed |-> parse_input(l)] : l \in lines}

FullParsed == Parsed(FullLines)

ShortParsed == Parsed(ShortLines)

ParsedLines == IF script = "full" THEN FullParsed ELSE ShortParsed

\* the lines on which parse_input returns the command c
LinesOf(c) == {p \in ParsedLines : p.parsed.exc = "None" /\ p.parsed.command = c}

NotCalled == [exc |-> "NotCalled", text |-> "", entries |-> <<>>]

PhonesBounded(data) == \A i \in 1..Len(data) : Len(data[i].record.phones) <= MaxPhones

----------------------------------------------------------------------------
(* main() *)

\* book = AddressBook.load_data() with no file yet, and the welcome line
Init ==
    /\ book = <<>>
    /\ file = NoFile
    /\ pc = "running"
    /\ today = MkDate(2024, 6, 10)
    /\ script = "full"
    /\ line = <<>>
    /\ out = [text |-> WelcomeText, values |-> <<>>]
    /\ days = DefaultDays
    /\ upcoming = NotCalled

\* print(handler(args, book)) and back to input()
Printed(p, r) ==
    /\ PhonesBounded(r.book)
    /\ line' = p.raw
    /\ out' = [text |-> r.text, values |-> r.values]
    /\ book' = r.book
    /\ UNCHANGED <<file, pc, today, script, days, upcoming>>

\* parts[0] raises IndexError outside every handler: the process ends with
\* a traceback, nothing is saved
EmptyLine ==
    /\ pc = "running"
    /\ \E p \in ParsedLines :
        /\ p.parsed.exc = "IndexError"
        /\ line' = p.raw
        /\ out' = [text |-> TracebackText, values |-> <<>>]
        /\ pc' = "crashed"
        /\ UNCHANGED <<book, file, today, script, days, upcoming>>

CloseExit ==
    /\ pc = "running"
    /\ \E p \in LinesOf(W_close) \cup LinesOf(W_exit) :
        /\ line' = p.raw
        /\ file' = save_data(book)
        /\ out' = [text |-> GoodByeText, values |-> <<>>]
        /\ pc' = "ended"
        /\ UNCHANGED <<book, today, script, days, upcoming>>

Hello ==
    /\ pc = "running"
    /\ \E p \in LinesOf(W_hello) :
        Printed(p, [text |-> HelloText, values |-> <<>>, book |-> book])

AddCmd ==
    /\ pc = "running"
    /\ \E p \in LinesOf(W_add) :
        Printed(p, input_error(add_contact(p.parsed.args, book)))

ChangeCmd ==
    /\ pc = "running"
    /\ \E p \in LinesOf(W_change) :
        Printed(p, input_error(change_contact(p.parsed.args, book)))

PhoneCmd ==
    /\ pc = "running"
    /\ \E p \in LinesOf(W_phone) :
        Printed(p, input_error(show_phone(p.parsed.args, book)))

AllCmd ==
    /\ pc = "running"
    /\ \E p \in LinesOf(W_all) :
        Printed(p, input_error(show_all(p.parsed.args, book)))

AddBirthdayCmd ==
    /\ pc = "running"
    /\ \E p \in LinesOf(W_add_birthday) :
        Printed(p, input_error(add_birthday_cmd(p.parsed.args, book, today)))

ShowBirthdayCmd ==
    /\ pc = "running"
    /\ \E p \in LinesOf(W_show_birthday) :
        Printed(p, input_error(show_birthday(p.parsed.args, book)))

BirthdaysCmd ==
    /\ pc = "running"
    /\ \E p \in LinesOf(W_birthdays) :
        Printed(p, input_error(birthdays(p.parsed.args, book, today)))

Commands == {W_close, W_exit, W_hello, W_add, W_change, W_phone, W_all,
             W_add_birthday, W_show_birthday, W_birthdays}

InvalidCmd ==
    /\ pc = "running"
    /\ \E p \in ParsedLines :
        /\ p.parsed.exc = "None"
        /\ p.parsed.command \notin Commands
        /\ Printed(p, [text |-> InvalidCommandText, values |-> <<>>, book |-> book])

\* one run of main(), from the welcome line to the end of the process
Next ==
    \/ EmptyLine
    \/ CloseExit
    \/ Hello
    \/ AddCmd
    \/ ChangeCmd
    \/ PhoneCmd
    \/ AllCmd
    \/ AddBirthdayCmd
    \/ ShowBirthdayCmd
    \/ BirthdaysCmd
    \/ InvalidCmd

Spec == Init /\ [][Next]_vars

----------------------------------------------------------------------------
(* Several runs of main() one after the other on the same file *)

\* the program is started again: main() loads the file and prints the welcome
Start ==
    /\ pc \in {"ended", "crashed"}
    /\ pc' = "running"
    /\ book' = load_data(file)
    /\ line' = <<>>
    /\ out' = [text |-> WelcomeText, values |-> <<>>]
    /\ UNCHANGED <<file, today, script, days, upcoming>>

InitSessions ==
    /\ book = <<>>
    /\ file = NoFile
    /\ pc = "running"
    /\ today = MkDate(2024, 6, 10)
    /\ script = "short"
    /\ line = <<>>
    /\ out = [text |-> WelcomeText, values |-> <<>>]
    /\ days = DefaultDays
    /\ upcoming = NotCalled

NextSessions == Next \/ Start

SpecSessions == InitSessions /\ [][NextSessions]_vars

----------------------------------------------------------------------------
(* get_upcoming_birthdays and the birthdays command on the address books    *)
(* of a bounded set, on several dates and with several values of days       *)

SchedNames == <<Ann, Bob, Cat, Dan>>

SchedBirthdays == {NoBirthday, D_29_02_2020, D_15_06_2020, D_16_06_2019,
                   D_1_1_2020, D_31_12_1999, D_10_06_2000}

SchedTodays == {MkDate(2024, 6, 10), MkDate(2024, 2, 27), MkDate(2023, 12, 28)}

Windows == (0 - 1)..MaxWindow

\* the address book in which the record of SchedNames[i] has birthday bs[i]
SchedBook(bs) ==
    [i \in 1..Len(bs) |->
        [key |-> SchedNames[i],
         record |-> [name |-> SchedNames[i], phones |-> <<PhoneA>>, birthday |-> bs[i]]]]

SchedBooks == {SchedBook(bs) : bs \in UNION {[1..k -> SchedBirthdays] : k \in 0..MaxSchedRecords}}

InitScheduler ==
    /\ book \in SchedBooks
    /\ file = NoFile
    /\ pc = "running"
    /\ today \in SchedTodays
    /\ script = "full"
    /\ line = <<>>
    /\ out = [text |-> WelcomeText, values |-> <<>>]
    /\ days = DefaultDays
    /\ upcoming = NotCalled

CallGetUpcomingBirthdays ==
    \E d \in Windows :
        /\ days' = d
        /\ upcoming' = get_upcoming_birthdays(book, today, d)
        /\ UNCHANGED <<book, file, pc, today, script, line, out>>

NextScheduler == CallGetUpcomingBirthdays \/ BirthdaysCmd

SpecScheduler == InitScheduler /\ [][NextScheduler]_vars

----------------------------------------------------------------------------
(* Properties *)

\* the command and arguments of the last line read
LastInput == parse_input(line)

LastCommandIs(c) == LastInput.exc = "None" /\ LastInput.command = c

\* the day and month of a stored birthday
BirthDate(record) == strptime(record.birthday).date

\* the birthday's day and month in today's year
ThisYear(b, t) == MkDate(t.y, b.m, b.d)

\* ... or in the following year when that date is strictly before today
NextDate(b, t) ==
    IF DateLess(ThisYear(b, t), t) THEN MkDate(t.y + 1, b.m, b.d) ELSE ThisYear(b, t)

\* the next occurrence is a date of the calendar
HasNextDate(b, t) ==
    /\ ValidDate(t.y, b.m, b.d)
    /\ ValidDate(NextDate(b, t).y, b.m, b.d)

DaysUntil(b, t) == ToOrdinal(NextDate(b, t)) - ToOrdinal(t)

EntriesOf(name) == {j \in 1..Len(upcoming.entries) : upcoming.entries[j].name = name}

\* C1: after get_upcoming_birthdays(days) has been called, a record has an
\* entry in the result if and only if it has a birthday and its next
\* occurrence lies 0..days days after today; records without a birthday have
\* no entry and no record has two entries.
C1_EntryIffInWindow ==
    upcoming.exc # "NotCalled" =>
        \A i \in 1..Len(book) :
            LET record == book[i].record
            IN  /\ Cardinality(EntriesOf(record.name)) <= 1
                /\ record.birthday = NoBirthday => EntriesOf(record.name) = {}
                /\ (record.birthday # NoBirthday /\ HasNextDate(BirthDate(record), today)) =>
                      (EntriesOf(record.name) # {}
                          <=> (0 <= DaysUntil(BirthDate(record), today)
                               /\ DaysUntil(BirthDate(record), today) <= days))

\* the record an entry of the result was made from
RecordOf(entry) == book[find(book, entry.name)].record

\* C2: every entry of the result reports the next occurrence itself when it
\* is a Monday to Friday, the next occurrence + 2 days when it is a Saturday
\* and + 1 day when it is a Sunday, formatted DD.MM.YYYY; the reported date
\* is never a Saturday or Sunday and never before the next occurrence.
C2_ReportedDate ==
    \A j \in 1..Len(upcoming.entries) :
        LET entry == upcoming.entries[j]
            next == NextDate(BirthDate(RecordOf(entry)), today)
            reported == strptime(entry.birthday)
            shift == ToOrdinal(reported.date) - ToOrdinal(next)
        IN  /\ reported.exc = "None"
            /\ Len(entry.birthday) = 10
            /\ weekday(next) \in 0..4 => shift = 0
            /\ weekday(next) = 5 => shift = 2
            /\ weekday(next) = 6 => shift = 1
            /\ weekday(reported.date) \in 0..4
            /\ shift >= 0

\* a result with an entry made from a Saturday and one made from a Sunday
C2_Witness ==
    /\ \E j \in 1..Len(upcoming.entries) :
          weekday(NextDate(BirthDate(RecordOf(upcoming.entries[j])), today)) = 5
    /\ \E j \in 1..Len(upcoming.entries) :
          weekday(NextDate(BirthDate(RecordOf(upcoming.entries[j])), today)) = 6


\* a record has the birthday 29 February and the year its next occurrence is
\* built in is not a leap year
Feb29InCommonYear(data, t) ==
    \E i \in 1..Len(data) :
        /\ data[i].record.birthday # NoBirthday
        /\ BirthDate(data[i].record).m = 2
        /\ BirthDate(data[i].record).d = 29
        /\ (~IsLeap(t.y) \/ (IsLeap(t.y) /\ DateLess(MkDate(t.y, 2, 29), t)))

\* a step of the birthdays command, as opposed to a direct call
BirthdaysStep == line' # line \/ out' # out

\* C10: with a 29 February birthday whose next occurrence falls in a common
\* year, get_upcoming_birthdays raises ValueError and yields no entry,
\* whatever days is, and the birthdays command prints the text of the error
\* and leaves the address book as it was.
C10_Feb29Fails ==
    [][Feb29InCommonYear(book, today) =>
          /\ book' = book
          /\ BirthdaysStep =>
                (out'.text = DayOutOfRangeText /\ out'.values = <<>>)
          /\ ~BirthdaysStep =>
                (upcoming'.exc = "ValueError" /\ upcoming'.entries = <<>>)]_vars

\* the call and the command have failed although another record has its
\* birthday within the next days days
C10_Witness ==
    /\ Feb29InCommonYear(book, today)
    /\ upcoming.exc = "ValueError"
    /\ LastCommandIs(W_birthdays)
    /\ out.text = DayOutOfRangeText
    /\ \E i \in 1..Len(book) :
          /\ book[i].record.birthday # NoBirthday
          /\ HasNextDate(BirthDate(book[i].record), today)
          /\ DaysUntil(BirthDate(book[i].record), today) \in 0..days

ValidationTexts == {NameEmptyText, InvalidPhoneText, InvalidDateText}

\* C3: a command that ends with a validation error of Name, Phone or
\* Birthday leaves the whole address book as it was before the command.
C3_NoPartialApplication ==
    [][out'.text \in ValidationTexts => book' = book]_vars

\* add with a name that is not in the book and an invalid phone has failed
C3_Witness ==
    /\ LastCommandIs(W_add)
    /\ Len(LastInput.args) = 2
    /\ out.text = InvalidPhoneText
    /\ LastInput.args[1] \notin Keys(book)

\* the phones of the record of name in data
PhonesOf(data, name) == data[find(data, name)].record.phones

Occurs(phones, phone) == \E k \in 1..Len(phones) : phones[k] = phone

\* exactly 10 ASCII digits
TenAsciiDigits(s) == Len(s) = 10 /\ \A k \in 1..Len(s) : IsAsciiDigit(s[k])

\* line is change <name> <old> <new> for a record that holds old, new valid
ChangeOfPresent(data, l) ==
    LET p == parse_input(l)
    IN  /\ p.exc = "None" /\ p.command = W_change /\ Len(p.args) = 3
        /\ find(data, p.args[1]) # 0
        /\ Occurs(PhonesOf(data, p.args[1]), p.args[2])
        /\ TenAsciiDigits(p.args[3])

\* in after, the first occurrence of old is new and nothing else differs
FirstReplaced(before, after, name, old, new) ==
    LET i == find(before, name)
        phones == before[i].record.phones
        k == CHOOSE k \in 1..Len(phones) :
                 phones[k] = old /\ \A j \in 1..(k - 1) : phones[j] # old
    IN  /\ Len(after) = Len(before)
        /\ \A j \in 1..Len(before) : j # i => after[j] = before[j]
        /\ after[i].key = before[i].key
        /\ after[i].record.name = before[i].record.name
        /\ after[i].record.birthday = before[i].record.birthday
        /\ Len(after[i].record.phones) = Len(phones)
        /\ after[i].record.phones[k] = new
        /\ \A j \in 1..Len(phones) : j # k => after[i].record.phones[j] = phones[j]

ChangeReplacesFirst ==
    ChangeOfPresent(book, line') =>
        /\ out'.text = ChangedText
        /\ FirstReplaced(book, book', parse_input(line').args[1],
                         parse_input(line').args[2], parse_input(line').args[3])

\* the same change line is read again right after it has changed a phone
ChangeRepeated == out.text = ChangedText /\ line' = line

C5_InvalidNewAlwaysFails ==
    (/\ LastCommandIs(W_change)
     /\ Len(LastInput.args) = 3
     /\ find(book, LastInput.args[1]) # 0
     /\ ~(isdigit(LastInput.args[3]) /\ Len(LastInput.args[3]) = 10))
    => out.text = InvalidPhoneText

\* the number of arguments of the commands that take arguments
Required(c) ==
    IF c = W_change THEN 3
    ELSE IF c \in {W_add, W_add_birthday} THEN 2
    ELSE 1

ArgumentCommands == {W_add, W_change, W_phone, W_add_birthday, W_show_birthday}

WrongArgumentCount(l) ==
    LET p == parse_input(l)
    IN  /\ p.exc = "None"
        /\ p.command \in ArgumentCommands
        /\ Len(p.args) # Required(p.command)

\* C6: a command that takes arguments and is given another number of them
\* prints "Not enough arguments provided." and leaves the address book as
\* it was.
C6_WrongCountMessage ==
    [][WrongArgumentCount(line') => (out'.text = NotEnoughText /\ book' = book)]_vars

\* the address book written by save_data and read back by load_data
RoundTrip(data) == load_data(save_data(data))

\* C7: load_data(save_data(D)) is D, with the names in the same order and
\* the same phones and birthday for every name; the file left by close or
\* exit loads to the address book of that moment, and the next run of main()
\* starts with it.
C7_RoundTrip ==
    /\ [](RoundTrip(book) = book /\ (pc = "ended" => load_data(file) = book))
    /\ [][(pc = "ended" /\ pc' = "running") => book' = book]_vars

\* a run has started with two records read from the file, one of them with
\* two different phones and a birthday
C7_Witness ==
    /\ pc = "running"
    /\ out.text = WelcomeText
    /\ file # NoFile
    /\ Len(book) = 2
    /\ \E i \in 1..Len(book) :
          /\ book[i].record.birthday # NoBirthday
          /\ Len(book[i].record.phones) = 2
          /\ book[i].record.phones[1] # book[i].record.phones[2]

\* C8: every key is the name of its record, every name is non-empty and
\* every phone is a string of exactly 10 ASCII digits.
C8_DataModelInvariant ==
    \A i \in 1..Len(book) :
        /\ book[i].key = book[i].record.name
        /\ book[i].record.name # <<>>
        /\ \A k \in 1..Len(book[i].record.phones) :
              TenAsciiDigits(book[i].record.phones[k])

\* C9: the loop reads the next line after every line but close and exit:
\* the process has ended only on close or exit, with the address book saved
\* to the file.
C9_EndsOnlyOnCloseExit ==
    pc # "running" =>
        /\ LastCommandIs(W_close) \/ LastCommandIs(W_exit)
        /\ load_data(file) = book

====
